---------------------------- MODULE Spec2Model ----------------------------
(***************************************************************************)
(* Instance (kernels/common/scene_instance.cpp): the per-time-step         *)
(* transform store of an instanced sub-scene, its interpolation mode, the  *)
(* commit cycle and the reference it holds on the sub-scene.               *)
(*                                                                         *)
(* Every member function is an operator on the record `this` of the        *)
(* object's fields and returns the record after the call; a thrown         *)
(* RTCError is the field `err` of the returned record, and a caller that   *)
(* sees it set returns at once (the exception propagates).  One action per *)
(* API call applies the operator to the current state.                     *)
(*                                                                         *)
(* Values.  An AffineSpace3fa is an opaque token: "one" is the identity,   *)
(* Xfms are the matrices a caller passes, "DRM_q" is D*R*M computed from   *)
(* the decomposition q, "rcp_x" the inverse of x.  An entry of             *)
(* quaternionDecomposition is the pair of its field l.vx.x (`vxx`) and of  *)
(* all its other fields (`rest`): the code marks an entry invalid by       *)
(* writing +infinity to l.vx.x alone.                                      *)
(***************************************************************************)
EXTENDS Integers, FiniteSets, Sequences, TLC

\* largest number of time steps of the instance
MaxN == 3

\* matrices passed to setTransform
Xfms == {"A"}
\* decompositions passed to setQuaternionDecomposition (finite l.vx.x)
QDs == {"q1", "q2"}
\* sub-scenes an instance may reference; "null" is the null pointer
Scenes == {"s1", "s2"}
NullScene == "null"

\* std::numeric_limits<float>::infinity() in l.vx.x
Infinity == "inf"
\* content of memory returned by alignedMalloc and not yet written
Uninit == "uninit"

NoError == "RTC_ERROR_NONE"
RTC_ERROR_INVALID_OPERATION == "RTC_ERROR_INVALID_OPERATION"
LINEAR == "LINEAR"
NONLINEAR == "NONLINEAR"

\* a pointer is the empty tuple (nullptr) or the one-tuple of the array
Nullptr == << >>
Ptr(arr) == << arr >>
Deref(p) == p[1]

\* the indices of an array of n elements
Indices(n) == 0 .. (n - 1)

Min(a, b) == IF a < b THEN a ELSE b

VARIABLES
  alive,      \* the Instance object exists (constructed, not yet destroyed)
  this,       \* the fields of the Instance (and of its Geometry base)
  refCounter, \* the reference counter of every sub-scene
  phase,      \* "mutate" or "build": the scene commit runs preCommit .. postCommit
  call,       \* the last API call: [op, t, arg]
  result,     \* the value the last call returned
  affineSet   \* history: time steps whose last successful setter was setTransform

vars == << alive, this, refCounter, phase, call, result, affineSet >>

-----------------------------------------------------------------------------
(* Quaternion entries *)

\* the entry a caller's decomposition q occupies
QDEntry(q) == [vxx |-> q, rest |-> q]

\* quaternionDecomposition[i].l.vx.x = infinity
SetSentinel(e) == [e EXCEPT !.vxx = Infinity]

\* quaternionDecomposition[i].l.vx.x == infinity
IsSentinel(e) == e.vxx = Infinity

\* a freshly allocated entry
UninitEntry == [vxx |-> Uninit, rest |-> Uninit]

\* D * R * M of setQuaternionDecomposition
AffineFromQD(q) == CASE q = "q1" -> "DRM_q1"
                     [] q = "q2" -> "DRM_q2"

\* rcp(AffineSpace3fa)
rcp(x) == CASE x = "one"    -> "one"
            [] x = "A"      -> "rcp_A"
            [] x = "DRM_q1" -> "rcp_DRM_q1"
            [] x = "DRM_q2" -> "rcp_DRM_q2"
            [] OTHER        -> "rcp_other"

\* MotionDerivativeCoefficients(qd0, qd1): a function of the two entries
MotionDerivativeCoefficients(e0, e1) == << e0, e1 >>

-----------------------------------------------------------------------------
(* Geometry base class and RefCount: not part of scene_instance.cpp *)

\* throw_RTCError(kind, ..): the call ends with the state as it is
throw_RTCError(s, kind) == [s EXCEPT !.err = kind]

\* Geometry::update(): marks the geometry modified
Geometry_update(s) == [s EXCEPT !.modified = TRUE]

\* Geometry::commit(): the geometry is committed
Geometry_commit(s) == [s EXCEPT !.modified = FALSE]

\* Geometry::setNumTimeSteps: the time step bookkeeping
Geometry_setNumTimeSteps(s, n) == [s EXCEPT !.numTimeSteps = n]

\* Geometry::preCommit / postCommit: no field of the model changes
Geometry_preCommit(s) == s
Geometry_postCommit(s) == s

refInc(rc, o) == [rc EXCEPT ![o] = @ + 1]
refDec(rc, o) == [rc EXCEPT ![o] = @ - 1]


-----------------------------------------------------------------------------
(* Instance *)

\* Instance::Instance(device, object, numTimeSteps)
Instance_Instance(rc, object, numTimeSteps) ==
  [ this |-> [ numTimeSteps            |-> numTimeSteps,
               object                  |-> object,
               local2world             |-> Ptr([i \in Indices(numTimeSteps) |-> "one"]),
               interpolation           |-> LINEAR,
               quaternionDecomposition |-> Nullptr,
               motionDerivCoeffs       |-> Nullptr,
               world2local0            |-> "one",
               modified                |-> TRUE,
               err                     |-> NoError ],
    refCounter |-> IF object # NullScene THEN refInc(rc, object) ELSE rc ]

\* Instance::~Instance()
Instance_destroy(s, rc) ==
  [ this |-> [s EXCEPT !.local2world = Nullptr,
                       !.quaternionDecomposition = Nullptr,
                       !.motionDerivCoeffs = Nullptr],
    refCounter |-> IF s.object # NullScene THEN refDec(rc, s.object) ELSE rc ]

\* setNumTimeSteps that leaves the new quaternion entries as allocated
Instance_setNumTimeSteps_newUnmarked(s, numTimeSteps_in) ==
  IF numTimeSteps_in = s.numTimeSteps THEN s
  ELSE
    LET keep   == Min(s.numTimeSteps, numTimeSteps_in)
        l2w    == Deref(s.local2world)
        l2w2   == [i \in Indices(numTimeSteps_in) |-> IF i < keep THEN l2w[i] ELSE "one"]
        s1     == [s EXCEPT !.local2world = Ptr(l2w2)]
        s2     == IF s.quaternionDecomposition # Nullptr
                  THEN LET qd  == Deref(s.quaternionDecomposition)
                           qd2 == [i \in Indices(numTimeSteps_in) |->
                                      IF i < keep THEN qd[i] ELSE UninitEntry]
                       IN [s1 EXCEPT !.quaternionDecomposition = Ptr(qd2)]
                  ELSE s1
    IN Geometry_setNumTimeSteps(s2, numTimeSteps_in)

\* Instance::setNumTimeSteps(numTimeSteps_in)
Instance_setNumTimeSteps(s, numTimeSteps_in) ==
  IF numTimeSteps_in = s.numTimeSteps THEN s
  ELSE
    LET n      == s.numTimeSteps
        keep   == Min(n, numTimeSteps_in)
        l2w    == Deref(s.local2world)
        l2w2   == [i \in Indices(numTimeSteps_in) |-> IF i < keep THEN l2w[i] ELSE "one"]
        s1     == [s EXCEPT !.local2world = Ptr(l2w2)]
        s2     == IF s.quaternionDecomposition # Nullptr
                  THEN LET qd  == Deref(s.quaternionDecomposition)
                           qd2 == [i \in Indices(numTimeSteps_in) |->
                                      IF i < keep THEN qd[i]
                                      ELSE SetSentinel(UninitEntry)]
                       IN [s1 EXCEPT !.quaternionDecomposition = Ptr(qd2)]
                  ELSE s1
    IN Geometry_setNumTimeSteps(s2, numTimeSteps_in)

\* setInstancedScene that does not release the scene it replaces
Instance_setInstancedScene_leak(s, rc, scene) ==
  LET s1  == [s EXCEPT !.object = scene]
      rc2 == IF s1.object # NullScene THEN refInc(rc, s1.object) ELSE rc
  IN [ this |-> Geometry_update(s1), refCounter |-> rc2 ]

\* Instance::setInstancedScene(scene)
Instance_setInstancedScene(s, rc, scene) ==
  LET rc1 == IF s.object # NullScene THEN refDec(rc, s.object) ELSE rc
      s1  == [s EXCEPT !.object = scene]
      rc2 == IF s1.object # NullScene THEN refInc(rc1, s1.object) ELSE rc1
  IN [ this |-> Geometry_update(s1), refCounter |-> rc2 ]

\* preCommit that builds entry i from the quaternion entries i - 1 and i
Instance_preCommit_shifted(s) ==
  LET s1 == IF s.interpolation = NONLINEAR
            THEN LET qd == Deref(s.quaternionDecomposition)
                 IN [s EXCEPT !.motionDerivCoeffs =
                       Ptr([i \in Indices(s.numTimeSteps - 1) |->
                              MotionDerivativeCoefficients(
                                qd[IF i = 0 THEN 0 ELSE i - 1], qd[i])])]
            ELSE s
  IN Geometry_preCommit(s1)

\* Instance::preCommit()
Instance_preCommit(s) ==
  LET s1 == IF s.interpolation = NONLINEAR
            THEN LET qd == Deref(s.quaternionDecomposition)
                 IN [s EXCEPT !.motionDerivCoeffs =
                       Ptr([i \in Indices(s.numTimeSteps - 1) |->
                              MotionDerivativeCoefficients(qd[i], qd[i + 1])])]
            ELSE s
  IN Geometry_preCommit(s1)

\* Instance::postCommit()
Instance_postCommit(s) ==
  Geometry_postCommit([s EXCEPT !.motionDerivCoeffs = Nullptr])

\* setTransform that clamps an out-of-range time step instead of failing
Instance_setTransform_clamped(s, xfm, timeStep) ==
  LET t  == Min(timeStep, s.numTimeSteps - 1)
      s1 == IF s.quaternionDecomposition # Nullptr
            THEN [s EXCEPT !.quaternionDecomposition =
                    Ptr([Deref(@) EXCEPT ![t] = SetSentinel(@)])]
            ELSE s
  IN [s1 EXCEPT !.local2world = Ptr([Deref(@) EXCEPT ![t] = xfm])]

\* setTransform that keeps the quaternion entry of the time step
Instance_setTransform_keepsQD(s, xfm, timeStep) ==
  IF timeStep >= s.numTimeSteps
  THEN throw_RTCError(s, RTC_ERROR_INVALID_OPERATION)
  ELSE [s EXCEPT !.local2world = Ptr([Deref(@) EXCEPT ![timeStep] = xfm])]

\* Instance::setTransform(xfm, timeStep)
Instance_setTransform(s, xfm, timeStep) ==
  IF timeStep >= s.numTimeSteps
  THEN throw_RTCError(s, RTC_ERROR_INVALID_OPERATION)
  ELSE
    LET s1 == IF s.quaternionDecomposition # Nullptr
              THEN [s EXCEPT !.quaternionDecomposition =
                      Ptr([Deref(@) EXCEPT ![timeStep] = SetSentinel(@)])]
              ELSE s
    IN [s1 EXCEPT !.local2world = Ptr([Deref(@) EXCEPT ![timeStep] = xfm])]

\* setQuaternionDecomposition that stores the decomposition before it sets
\* the affine matrix
Instance_setQuaternionDecomposition_storeFirst(s, qd, timeStep) ==
  IF timeStep >= s.numTimeSteps
  THEN throw_RTCError(s, RTC_ERROR_INVALID_OPERATION)
  ELSE
    LET s1 == IF s.quaternionDecomposition = Nullptr
              THEN [s EXCEPT !.quaternionDecomposition =
                      Ptr([i \in Indices(s.numTimeSteps) |-> SetSentinel(UninitEntry)])]
              ELSE s
        s2 == [s1 EXCEPT !.quaternionDecomposition =
                 Ptr([Deref(@) EXCEPT ![timeStep] = QDEntry(qd)])]
    IN Instance_setTransform(s2, AffineFromQD(qd), timeStep)

\* Instance::setQuaternionDecomposition(qd, timeStep)
Instance_setQuaternionDecomposition(s, qd, timeStep) ==
  IF timeStep >= s.numTimeSteps
  THEN throw_RTCError(s, RTC_ERROR_INVALID_OPERATION)
  ELSE
    LET s1 == Instance_setTransform(s, AffineFromQD(qd), timeStep)
    IN IF s1.err # NoError THEN s1
       ELSE
         LET s2 == IF s1.quaternionDecomposition = Nullptr
                   THEN [s1 EXCEPT !.quaternionDecomposition =
                           Ptr([i \in Indices(s1.numTimeSteps) |-> SetSentinel(UninitEntry)])]
                   ELSE s1
         IN [s2 EXCEPT !.quaternionDecomposition =
               Ptr([Deref(@) EXCEPT ![timeStep] = QDEntry(qd)])]

\* updateInterpolationMode that treats a mixed sequence as linear
Instance_updateInterpolationMode_mixedIsLinear(s) ==
  LET hasQD == s.quaternionDecomposition # Nullptr
      qd    == Deref(s.quaternionDecomposition)
      idx   == 0 .. (s.numTimeSteps - 1)
      interpolate_nonlinear == hasQD /\ \A i \in idx : ~IsSentinel(qd[i])
  IN [s EXCEPT !.interpolation =
        IF interpolate_nonlinear THEN NONLINEAR ELSE LINEAR]

\* updateInterpolationMode that never leaves the nonlinear mode
Instance_updateInterpolationMode_sticky(s) ==
  LET hasQD == s.quaternionDecomposition # Nullptr
      qd    == Deref(s.quaternionDecomposition)
      idx   == 0 .. (s.numTimeSteps - 1)
      interpolate_nonlinear == hasQD /\ \A i \in idx : ~IsSentinel(qd[i])
      interpolate_linear    == hasQD => \A i \in idx : IsSentinel(qd[i])
  IN IF ~interpolate_linear /\ ~interpolate_nonlinear
     THEN throw_RTCError(s, RTC_ERROR_INVALID_OPERATION)
     ELSE IF interpolate_linear /\ interpolate_nonlinear
     THEN throw_RTCError(s, RTC_ERROR_INVALID_OPERATION)
     ELSE [s EXCEPT !.interpolation =
             IF interpolate_linear /\ s.interpolation = LINEAR
             THEN LINEAR ELSE NONLINEAR]

\* the flag interpolate_nonlinear after the scan of updateInterpolationMode:
\* raised when the array exists, lowered by every sentinel entry
interpolate_nonlinear(s) ==
  /\ s.quaternionDecomposition # Nullptr
  /\ \A i \in Indices(s.numTimeSteps) :
        ~IsSentinel(Deref(s.quaternionDecomposition)[i])

\* a scan that starts at the second entry
interpolate_linear_skipFirst(s) ==
  s.quaternionDecomposition # Nullptr
    => \A i \in 1 .. (s.numTimeSteps - 1) :
         IsSentinel(Deref(s.quaternionDecomposition)[i])

\* the flag interpolate_linear after the scan of updateInterpolationMode:
\* raised at the start, lowered by every entry that is not a sentinel
interpolate_linear(s) ==
  s.quaternionDecomposition # Nullptr
    => \A i \in Indices(s.numTimeSteps) :
         IsSentinel(Deref(s.quaternionDecomposition)[i])

\* Instance::updateInterpolationMode()
Instance_updateInterpolationMode(s) ==
  IF ~interpolate_linear(s) /\ ~interpolate_nonlinear(s)
  THEN throw_RTCError(s, RTC_ERROR_INVALID_OPERATION)
  ELSE IF interpolate_linear(s) /\ interpolate_nonlinear(s)
  THEN throw_RTCError(s, RTC_ERROR_INVALID_OPERATION)
  ELSE [s EXCEPT !.interpolation =
          IF interpolate_linear(s) THEN LINEAR ELSE NONLINEAR]

\* commit that goes on after a failed classification
Instance_commit_noAbort(s) ==
  LET s1 == Instance_updateInterpolationMode(s)
  IN Geometry_commit([s1 EXCEPT !.world2local0 = rcp(Deref(s1.local2world)[0])])

\* Instance::commit()
Instance_commit(s) ==
  LET s1 == Instance_updateInterpolationMode(s)
  IN IF s1.err # NoError THEN s1
     ELSE Geometry_commit([s1 EXCEPT !.world2local0 = rcp(Deref(s1.local2world)[0])])


-----------------------------------------------------------------------------
(* Transform query.  A query time is a whole number of half segments: *)
(* time h is keyframe h/2 when h is even, the middle of a segment else. *)

\* Geometry::timeSegment(time, ftime): the segment and the fraction (in halves)
timeSegment_itime(s, h) == Min(h \div 2, s.numTimeSteps - 2)
timeSegment_ftime(s, h) == h - 2 * timeSegment_itime(s, h)

\* lerp(a, b, f) of two affine transforms, f in halves
lerp(a, b, f) == CASE f = 0 -> a
                   [] f = 2 -> b
                   [] OTHER -> IF a = b THEN a ELSE "blend"

\* slerp(e0, e1, f) of two quaternion entries, f in halves; an entry that
\* holds infinity makes the result NaN
slerp(e0, e1, f) ==
  IF IsSentinel(e0) \/ IsSentinel(e1) THEN "nan"
  ELSE CASE f = 0 -> AffineFromQD(e0.vxx)
         [] f = 2 -> AffineFromQD(e1.vxx)
         [] OTHER -> IF e0 = e1 THEN AffineFromQD(e0.vxx) ELSE "blend"

\* Instance::getLocal2World()
Instance_getLocal2World0(s) == Deref(s.local2world)[0]

\* Instance::getLocal2World(time): interpolation over the active representation
Instance_getLocal2World(s, h) ==
  LET itime == timeSegment_itime(s, h)
      ftime == timeSegment_ftime(s, h)
  IN IF s.interpolation = NONLINEAR
     THEN slerp(Deref(s.quaternionDecomposition)[itime],
                Deref(s.quaternionDecomposition)[itime + 1], ftime)
     ELSE lerp(Deref(s.local2world)[itime], Deref(s.local2world)[itime + 1], ftime)

\* getTransform that returns the transform of time step 0 for every time
Instance_getTransform_first(s, h) == Instance_getLocal2World0(s)

\* Instance::getTransform(time)
Instance_getTransform(s, h) ==
  IF s.numTimeSteps <= 1
  THEN Instance_getLocal2World0(s)
  ELSE Instance_getLocal2World(s, h)

-----------------------------------------------------------------------------
(* The API calls *)

\* time step arguments of the setters, valid (t < N) and out of range
TimeSteps == 0 .. MaxN
\* time step counts: an instance has at least one time step
Counts == 1 .. MaxN
\* query times, in half segments
Times == 0 .. 2 * (MaxN - 1)
NoResult == "void"

Call(op, t, arg) == [op |-> op, t |-> t, arg |-> arg]

\* every call starts with a clear error state
Enter == [this EXCEPT !.err = NoError]

\* the reference counters before any instance exists: one handle per scene
InitialRefs == [o \in Scenes |-> 1]

\* the state after construction with one of the given sub-scenes
Constructed(objects) ==
  \E object \in objects, n \in Counts :
    LET r == Instance_Instance(InitialRefs, object, n)
    IN /\ alive = TRUE
       /\ this = r.this
       /\ refCounter = r.refCounter
       /\ phase = "mutate"
       /\ call = Call("Instance", n, object)
       /\ result = NoResult
       /\ affineSet = {}

\* an instance is created without a sub-scene
Init == Constructed({NullScene})

\* an instance is constructed on a sub-scene, or on none
InitRef == Constructed(Scenes \cup {NullScene})

Mutating == alive /\ phase = "mutate"

setNumTimeSteps ==
  \E n \in Counts :
    /\ Mutating
    /\ this' = Instance_setNumTimeSteps(Enter, n)
    /\ call' = Call("setNumTimeSteps", n, "-")
    /\ result' = NoResult
    /\ affineSet' = affineSet \cap (0 .. (n - 1))
    /\ UNCHANGED << alive, refCounter, phase >>

setTransform ==
  \E xfm \in Xfms, t \in TimeSteps :
    /\ Mutating
    /\ this' = Instance_setTransform(Enter, xfm, t)
    /\ call' = Call("setTransform", t, xfm)
    /\ result' = NoResult
    /\ affineSet' = IF this'.err = NoError THEN affineSet \cup {t} ELSE affineSet
    /\ UNCHANGED << alive, refCounter, phase >>

setQuaternionDecomposition ==
  \E qd \in QDs, t \in TimeSteps :
    /\ Mutating
    /\ this' = Instance_setQuaternionDecomposition(Enter, qd, t)
    /\ call' = Call("setQuaternionDecomposition", t, qd)
    /\ result' = NoResult
    /\ affineSet' = IF this'.err = NoError THEN affineSet \ {t} ELSE affineSet
    /\ UNCHANGED << alive, refCounter, phase >>

commit ==
  /\ Mutating
  /\ this' = Instance_commit(Enter)
  /\ call' = Call("commit", 0, "-")
  /\ result' = NoResult
  /\ UNCHANGED << alive, refCounter, phase, affineSet >>

preCommit ==
  /\ Mutating
  /\ this' = Instance_preCommit(Enter)
  /\ phase' = "build"
  /\ call' = Call("preCommit", 0, "-")
  /\ result' = NoResult
  /\ UNCHANGED << alive, refCounter, affineSet >>

postCommit ==
  /\ alive /\ phase = "build"
  /\ this' = Instance_postCommit(Enter)
  /\ phase' = "mutate"
  /\ call' = Call("postCommit", 0, "-")
  /\ result' = NoResult
  /\ UNCHANGED << alive, refCounter, affineSet >>

getTransform ==
  \E h \in Times :
    /\ alive
    /\ this.numTimeSteps > 1 => h <= 2 * (this.numTimeSteps - 1)
    /\ this' = Enter
    /\ result' = Instance_getTransform(Enter, h)
    /\ call' = Call("getTransform", h, "-")
    /\ UNCHANGED << alive, refCounter, phase, affineSet >>

setInstancedScene ==
  \E scene \in Scenes \cup {NullScene} :
    LET r == Instance_setInstancedScene(Enter, refCounter, scene)
    IN /\ Mutating
       /\ this' = r.this
       /\ refCounter' = r.refCounter
       /\ call' = Call("setInstancedScene", 0, scene)
       /\ result' = NoResult
       /\ UNCHANGED << alive, phase, affineSet >>

destroy ==
  LET r == Instance_destroy(Enter, refCounter)
  IN /\ Mutating
     /\ alive' = FALSE
     /\ this' = r.this
     /\ refCounter' = r.refCounter
     /\ call' = Call("~Instance", 0, "-")
     /\ result' = NoResult
     /\ UNCHANGED << phase, affineSet >>

Next ==
  \/ setNumTimeSteps
  \/ setTransform
  \/ setQuaternionDecomposition
  \/ commit
  \/ preCommit
  \/ postCommit
  \/ getTransform

Spec == Init /\ [][Next]_vars

\* the life of the instance and of its reference to the sub-scene
NextRef ==
  \/ setInstancedScene
  \/ setNumTimeSteps
  \/ setTransform
  \/ commit
  \/ destroy

SpecRef == InitRef /\ [][NextRef]_vars


-----------------------------------------------------------------------------
(* Motion bounds.  A float is an exact fraction << n, d >> with d > 0 in   *)
(* lowest terms (no rounding, no NaN, no infinity).  One axis is modelled:  *)
(* a Vec3fa is one float, a BBox3fa is [lower, upper], an AffineSpace3fa is *)
(* [l, p] (linear part and translation), and a box has the two corners of   *)
(* the loop over ii.                                                        *)

RECURSIVE GCD(_, _)
GCD(a, b) == IF b = 0 THEN a ELSE GCD(b, a % b)

Abs(k) == IF k < 0 THEN -k ELSE k

\* the fraction n / d, d # 0, in lowest terms
Float(n, d) ==
  LET g == GCD(Abs(n), Abs(d))
  IN IF d > 0 THEN << n \div g, d \div g >> ELSE << (-n) \div g, (-d) \div g >>

Zero == Float(0, 1)
One  == Float(1, 1)
Two  == Float(2, 1)
Half == Float(1, 2)

\* the arithmetic keeps every intermediate product as small as the result
add(a, b) ==
  LET g == GCD(a[2], b[2])
  IN Float(a[1] * (b[2] \div g) + b[1] * (a[2] \div g), (a[2] \div g) * b[2])
neg(a)    == << -a[1], a[2] >>
sub(a, b) == add(a, neg(b))
mul(a, b) ==
  LET g1 == GCD(Abs(a[1]), b[2])
      g2 == GCD(Abs(b[1]), a[2])
  IN Float((a[1] \div g1) * (b[1] \div g2), (a[2] \div g2) * (b[2] \div g1))
\* a / b, b # 0
div(a, b) == mul(a, IF b[1] > 0 THEN << b[2], b[1] >> ELSE << -b[2], -b[1] >>)
lt(a, b)  ==
  LET g == GCD(a[2], b[2])
  IN a[1] * (b[2] \div g) < b[1] * (a[2] \div g)
le(a, b)  == ~lt(b, a)
abs(a)    == << Abs(a[1]), a[2] >>
\* std::min(a, b) and std::max(a, b)
min(a, b) == IF lt(b, a) THEN b ELSE a
max(a, b) == IF lt(a, b) THEN b ELSE a
floor(a)  == Float(a[1] \div a[2], 1)
ceil(a)   == Float(-((-a[1]) \div a[2]), 1)
\* (int) x of a float x that holds a whole number
int(a)    == a[1]
\* (float) i
float(i)  == Float(i, 1)

BBox(lo, up) == [lower |-> lo, upper |-> up]
AffineSpace(l, p) == [l |-> l, p |-> p]

\* lerp(a, b, t) = (1 - t) * a + t * b
lerp_float(a, b, t) == add(mul(sub(One, t), a), mul(t, b))
lerp_BBox(b0, b1, t) ==
  BBox(lerp_float(b0.lower, b1.lower, t), lerp_float(b0.upper, b1.upper, t))
lerp_AffineSpace(x0, x1, t) ==
  AffineSpace(lerp_float(x0.l, x1.l, t), lerp_float(x0.p, x1.p, t))
\* slerp of two decompositions: an axis has no rotation to blend, the
\* remaining factors are blended linearly
slerp_AffineSpace(q0, q1, t) == lerp_AffineSpace(q0, q1, t)

xfmPoint(m, x)  == add(mul(m.l, x), m.p)
xfmVector(m, v) == mul(m.l, v)
xfmBounds(m, b) ==
  BBox(min(xfmPoint(m, b.lower), xfmPoint(m, b.upper)),
       max(xfmPoint(m, b.lower), xfmPoint(m, b.upper)))

\* corner ii of a box
corner(b, ii) == IF ii = 0 THEN b.lower ELSE b.upper

\* one corner of boundSegmentLinear that overwrites the lower delta
boundSegmentLinear_corner_noMin(delta, ii, xfm0, xfm1, obbox0, obbox1, bbox0, bbox1, tmin, tmax) ==
  LET p0 == corner(obbox0, ii)
      p1 == corner(obbox1, ii)
      denom == mul(Two, xfmVector(AffineSpace(sub(xfm0.l, xfm1.l), sub(xfm0.p, xfm1.p)),
                                  sub(p0, p1)))
      nom == sub(sub(mul(Two, xfmPoint(xfm0, p0)), xfmPoint(xfm0, p1)), xfmPoint(xfm1, p0))
      tl == div(add(nom, sub(bbox1.lower, bbox0.lower)), denom)
      tu == div(add(nom, sub(bbox1.upper, bbox0.upper)), denom)
      pt(t) == xfmPoint(lerp_AffineSpace(xfm0, xfm1, t), lerp_float(p0, p1, t))
      bt(t) == lerp_BBox(bbox0, bbox1, t)
  IN IF ~lt(Zero, abs(denom)) THEN delta
     ELSE BBox(IF le(tmin, tl) /\ le(tl, tmax)
               THEN sub(pt(tl), bt(tl).lower)
               ELSE delta.lower,
               IF le(tmin, tu) /\ le(tu, tmax)
               THEN max(delta.upper, sub(pt(tu), bt(tu).upper))
               ELSE delta.upper)

\* boundSegmentLinear: the body of the loop over the corners, for corner ii
boundSegmentLinear_corner(delta, ii, xfm0, xfm1, obbox0, obbox1, bbox0, bbox1, tmin, tmax) ==
  LET p0 == corner(obbox0, ii)
      p1 == corner(obbox1, ii)
      denom == mul(Two, xfmVector(AffineSpace(sub(xfm0.l, xfm1.l), sub(xfm0.p, xfm1.p)),
                                  sub(p0, p1)))
      nom == sub(sub(mul(Two, xfmPoint(xfm0, p0)), xfmPoint(xfm0, p1)), xfmPoint(xfm1, p0))
      tl == div(add(nom, sub(bbox1.lower, bbox0.lower)), denom)
      tu == div(add(nom, sub(bbox1.upper, bbox0.upper)), denom)
      pt(t) == xfmPoint(lerp_AffineSpace(xfm0, xfm1, t), lerp_float(p0, p1, t))
      bt(t) == lerp_BBox(bbox0, bbox1, t)
  IN IF ~lt(Zero, abs(denom)) THEN delta
     ELSE BBox(IF le(tmin, tl) /\ le(tl, tmax)
               THEN min(delta.lower, sub(pt(tl), bt(tl).lower))
               ELSE delta.lower,
               IF le(tmin, tu) /\ le(tu, tmax)
               THEN max(delta.upper, sub(pt(tu), bt(tu).upper))
               ELSE delta.upper)

\* boundSegmentLinear(xfm0, xfm1, obbox0, obbox1, bbox0, bbox1, tmin, tmax)
boundSegmentLinear(xfm0, xfm1, obbox0, obbox1, bbox0, bbox1, tmin, tmax) ==
  LET delta0 == BBox(Zero, Zero)
      delta1 == boundSegmentLinear_corner(delta0, 0, xfm0, xfm1, obbox0, obbox1,
                                          bbox0, bbox1, tmin, tmax)
  IN boundSegmentLinear_corner(delta1, 1, xfm0, xfm1, obbox0, obbox1,
                               bbox0, bbox1, tmin, tmax)

\* float roots[8]; maxNumRoots = 8
maxNumRoots == 8

\* MotionDerivative::findRoots(interval, offset, roots, maxRoots): of the
\* stationary points the solver reports for one corner and one offset, those
\* inside the interval, at most maxRoots of them
findRoots(interval, reported, maxRoots) ==
  LET inside(t) == le(interval[1], t) /\ le(t, interval[2])
      found == SelectSeq(reported, inside)
  IN SubSeq(found, 1, Min(Len(found), maxRoots))

\* delta.lower after the loop over the roots: std::min with every candidate
RECURSIVE minOverRoots(_, _)
minOverRoots(lo, cands) ==
  IF cands = << >> THEN lo
  ELSE minOverRoots(min(lo, Head(cands)), Tail(cands))

\* delta.upper after the loop over the roots: std::max with every candidate
RECURSIVE maxOverRoots(_, _)
maxOverRoots(up, cands) ==
  IF cands = << >> THEN up
  ELSE maxOverRoots(max(up, Head(cands)), Tail(cands))

\* boundSegmentNonlinear: the body of the loop over the corners, for corner
\* ii; solver.lower and solver.upper are what the root solver reports for
\* the two offsets
boundSegmentNonlinear_corner(delta, ii, solver, xfm0, xfm1, obbox0, obbox1, bbox0, bbox1, interval) ==
  LET p0 == corner(obbox0, ii)
      p1 == corner(obbox1, ii)
      pt(t) == xfmPoint(slerp_AffineSpace(xfm0, xfm1, t), lerp_float(p0, p1, t))
      bt(t) == lerp_BBox(bbox0, bbox1, t)
      rootsL == findRoots(interval, solver.lower, maxNumRoots)
      rootsU == findRoots(interval, solver.upper, maxNumRoots)
      candsL == [r \in 1 .. Len(rootsL) |-> sub(pt(rootsL[r]), bt(rootsL[r]).lower)]
      candsU == [r \in 1 .. Len(rootsU) |-> sub(pt(rootsU[r]), bt(rootsU[r]).upper)]
  IN BBox(minOverRoots(delta.lower, candsL), maxOverRoots(delta.upper, candsU))

\* boundSegmentNonlinear(motionDerivCoeffs, xfm0, xfm1, obbox0, obbox1,
\* bbox0, bbox1, tmin, tmax); the coefficients only reach the root solver,
\* whose reports are `solver`
boundSegmentNonlinear(solver, xfm0, xfm1, obbox0, obbox1, bbox0, bbox1, tmin, tmax) ==
  LET delta0 == BBox(Zero, Zero)
      interval == << tmin, tmax >>
      delta1 == boundSegmentNonlinear_corner(delta0, 0, solver, xfm0, xfm1,
                                             obbox0, obbox1, bbox0, bbox1, interval)
  IN boundSegmentNonlinear_corner(delta1, 1, solver, xfm0, xfm1,
                                  obbox0, obbox1, bbox0, bbox1, interval)

\* arr[i]; a read outside the array yields what the memory there holds
load(p, i, foreign) == IF i \in DOMAIN Deref(p) THEN Deref(p)[i] ELSE foreign

\* Instance::getObjectBounds(itime): the bounds of the sub-scene at keyframe
\* itime
Instance_getObjectBounds(s, itime) ==
  load(Ptr(s.object.bounds), itime, BBox(Zero, Zero))

\* Instance::bounds(0, itime): the world bounds at keyframe itime
Instance_bounds(s, itime) ==
  xfmBounds(load(s.local2world, itime, AffineSpace(One, Zero)),
            Instance_getObjectBounds(s, itime))

\* Instance::bounds(itime0, itime1, f): the world bounds of the blend of two
\* keyframes
Instance_bounds_f(s, itime0, itime1, f) ==
  LET ob == lerp_BBox(Instance_getObjectBounds(s, itime0),
                      Instance_getObjectBounds(s, itime1), f)
  IN IF s.interpolation = NONLINEAR
     THEN xfmBounds(slerp_AffineSpace(
                      load(s.quaternionDecomposition, itime0, AffineSpace(One, Zero)),
                      load(s.quaternionDecomposition, itime1, AffineSpace(One, Zero)), f), ob)
     ELSE xfmBounds(lerp_AffineSpace(
                      load(s.local2world, itime0, AffineSpace(One, Zero)),
                      load(s.local2world, itime1, AffineSpace(One, Zero)), f), ob)

\* Instance::boundSegment(itime, obbox0, obbox1, bbox0, bbox1, tmin, tmax)
Instance_boundSegment(s, solver, itime, obbox0, obbox1, bbox0, bbox1, tmin, tmax) ==
  IF s.interpolation = NONLINEAR
  THEN boundSegmentNonlinear(solver,
         load(s.quaternionDecomposition, itime, AffineSpace(One, Zero)),
         load(s.quaternionDecomposition, itime + 1, AffineSpace(One, Zero)),
         obbox0, obbox1, bbox0, bbox1, tmin, tmax)
  ELSE boundSegmentLinear(
         load(s.local2world, itime, AffineSpace(One, Zero)),
         load(s.local2world, itime + 1, AffineSpace(One, Zero)),
         obbox0, obbox1, bbox0, bbox1, tmin, tmax)

-----------------------------------------------------------------------------
(* The segment corrector applied to one motion segment *)

\* transforms of a keyframe
Affines == { AffineSpace(Float(l, 1), Float(p, 1)) : l \in {1, 2}, p \in {0, 3} }
\* object bounds of the sub-scene at a keyframe
ObjectBoxes == { BBox(Float(0, 1), Float(1, 1)), BBox(Float(1, 1), Float(3, 1)) }
\* naively blended world bounds handed to the corrector
NaiveBoxes == { BBox(Float(lo, 1), Float(up, 1)) : lo \in {0, 2}, up \in {1, 4} }
\* restrictions [tmin, tmax] of a segment
Restrictions == { r \in {Zero, Half, One} \X {Zero, Half, One} : le(r[1], r[2]) }
\* what the root solver may report for one offset
RootLists == { << >>, << Half >>, << Zero, One >> }
Solvers == [ lower : RootLists, upper : RootLists ]
Modes == { LINEAR, NONLINEAR }

\* a committed instance with the given keyframes in the given mode, inside
\* the build phase
Committed(mode, xfms, boxes) ==
  [ numTimeSteps            |-> Len(xfms),
    fnumTimeSegments        |-> float(Len(xfms) - 1),
    interpolation           |-> mode,
    local2world             |-> Ptr([i \in Indices(Len(xfms)) |-> xfms[i + 1]]),
    quaternionDecomposition |-> IF mode = NONLINEAR
                                THEN Ptr([i \in Indices(Len(xfms)) |-> xfms[i + 1]])
                                ELSE Nullptr,
    motionDerivCoeffs       |-> IF mode = NONLINEAR
                                THEN Ptr([i \in Indices(Len(xfms) - 1) |->
                                            MotionDerivativeCoefficients(xfms[i + 1], xfms[i + 2])])
                                ELSE Nullptr,
    object                  |-> [ bounds |-> [i \in Indices(Len(boxes)) |-> boxes[i + 1]] ],
    err                     |-> NoError ]

InitSegment ==
  \E mode \in Modes, xfm0 \in Affines, xfm1 \in Affines,
     obbox0 \in ObjectBoxes, obbox1 \in ObjectBoxes,
     bbox0 \in NaiveBoxes, bbox1 \in NaiveBoxes, r \in Restrictions :
    /\ alive = TRUE
    /\ this = Committed(mode, << xfm0, xfm1 >>, << obbox0, obbox1 >>)
    /\ refCounter = InitialRefs
    /\ phase = "build"
    /\ call = Call("input", 0, [ bbox0 |-> bbox0, bbox1 |-> bbox1,
                                 tmin |-> r[1], tmax |-> r[2] ])
    /\ result = NoResult
    /\ affineSet = {}

boundSegment ==
  \E solver \in Solvers :
    /\ call.op = "input"
    /\ result' = Instance_boundSegment(this, solver, 0,
                   Instance_getObjectBounds(this, 0), Instance_getObjectBounds(this, 1),
                   call.arg.bbox0, call.arg.bbox1, call.arg.tmin, call.arg.tmax)
    /\ call' = Call("boundSegment", 0, call.arg @@ [solver |-> solver])
    /\ UNCHANGED << alive, this, refCounter, phase, affineSet >>

SpecSegment == InitSegment /\ [][boundSegment]_vars


-----------------------------------------------------------------------------
(* Instance::nonlinearBounds.  A call is a frame: the position `pc` inside *)
(* the function, its locals, and the calls it has made so far: `seeds` are  *)
(* its calls of bounds(itime0, itime1, f), `sweep` the breakpoints of its   *)
(* first loop (calls of bounds(0, i)), `segments` its calls of              *)
(* boundSegment.  One operator per straight piece of the function takes     *)
(* the frame to the next position; the frame at "done" holds the returned   *)
(* lbbox in bounds0 and bounds1.                                            *)


\* BBox1f::size()
size(r) == sub(r.upper, r.lower)

\* box.lower += dlower; box.upper += dupper
shifted(b, dlower, dupper) == BBox(add(b.lower, dlower), add(b.upper, dupper))

\* locals whose iteration range is not limited to the keyframes
nonlinearBounds_locals_unlimited(time_range_in, geom_time_range, geom_time_segments) ==
  LET time_range == BBox(div(sub(time_range_in.lower, geom_time_range.lower), size(geom_time_range)),
                         div(sub(time_range_in.upper, geom_time_range.lower), size(geom_time_range)))
      lower    == mul(time_range.lower, geom_time_segments)
      upper    == mul(time_range.upper, geom_time_segments)
      ilowerf  == floor(lower)
      iupperf  == ceil(upper)
      ilowerfc == max(Zero, ilowerf)
      iupperfc == min(iupperf, geom_time_segments)
  IN [ time_range  |-> time_range,
       geom_time_segments |-> geom_time_segments,
       lower       |-> lower,
       upper       |-> upper,
       ilowerfc    |-> ilowerfc,
       iupperfc    |-> iupperfc,
       ilowerc     |-> int(ilowerfc),
       iupperc     |-> int(iupperfc),
       ilower_iter |-> IF -1 > int(ilowerf) THEN -1 ELSE int(ilowerf),
       iupper_iter |-> int(iupperf) ]

\* the locals of nonlinearBounds computed before the two paths part
nonlinearBounds_locals(time_range_in, geom_time_range, geom_time_segments) ==
  LET time_range == BBox(div(sub(time_range_in.lower, geom_time_range.lower), size(geom_time_range)),
                         div(sub(time_range_in.upper, geom_time_range.lower), size(geom_time_range)))
      lower    == mul(time_range.lower, geom_time_segments)
      upper    == mul(time_range.upper, geom_time_segments)
      ilowerf  == floor(lower)
      iupperf  == ceil(upper)
      ilowerfc == max(Zero, ilowerf)
      iupperfc == min(iupperf, geom_time_segments)
  IN [ time_range  |-> time_range,
       geom_time_segments |-> geom_time_segments,
       lower       |-> lower,
       upper       |-> upper,
       ilowerfc    |-> ilowerfc,
       iupperfc    |-> iupperfc,
       ilowerc     |-> int(ilowerfc),
       iupperc     |-> int(iupperfc),
       ilower_iter |-> IF -1 > int(ilowerf) THEN -1 ELSE int(ilowerf),
       iupper_iter |-> Min(int(iupperf), int(geom_time_segments) + 1) ]

\* the position of keyframe i inside the query range
fraction(c, i) ==
  div(sub(div(float(i), c.geom_time_segments), c.time_range.lower), size(c.time_range))

\* max(i, j) of two ints
imax(i, j) == IF i > j THEN i ELSE j

\* a call of bounds(itime0, itime1, f) and the box it returned
Seed(s, itime0, itime1, f) ==
  [ itime0 |-> itime0, itime1 |-> itime1, f |-> f,
    box |-> Instance_bounds_f(s, itime0, itime1, f) ]

\* the frame after the two seed boxes have been computed
Frame(path, pc, c, i, seed0, seed1) ==
  [ path     |-> path,
    pc       |-> pc,
    locals   |-> c,
    asserted |-> c.iupperc - c.ilowerc > 0,
    i        |-> i,
    seeds    |-> << seed0, seed1 >>,
    b0       |-> seed0.box,
    b1       |-> seed1.box,
    sweep    |-> << >>,
    segments |-> << >>,
    delta    |-> BBox(Zero, Zero),
    bounds0  |-> seed0.box,
    bounds1  |-> seed1.box ]

\* a call of boundSegment(itime, getObjectBounds(i0), getObjectBounds(i1),
\* lerp(b0, b1, f0), lerp(b0, b1, f1), tmin, tmax) and the delta it returned
Segment(s, solver, itime, i0, i1, b0, b1, f0, f1, tmin, tmax) ==
  [ itime |-> itime, obbox0 |-> i0, obbox1 |-> i1,
    f0 |-> f0, f1 |-> f1, tmin |-> tmin, tmax |-> tmax,
    d |-> Instance_boundSegment(s, solver, itime,
            Instance_getObjectBounds(s, i0), Instance_getObjectBounds(s, i1),
            lerp_BBox(b0, b1, f0), lerp_BBox(b0, b1, f1), tmin, tmax) ]

\* the single-segment path (the then branch): the two seed boxes
nonlinearBounds_single_seed(s, c) ==
  Frame("single", "single", c, 0,
        Seed(s, c.ilowerc, c.iupperc, max(Zero, sub(c.lower, c.ilowerfc))),
        Seed(s, c.iupperc, c.ilowerc, max(Zero, sub(c.iupperfc, c.upper))))

\* a single-segment path that corrects over the whole segment
nonlinearBounds_single_wholeSegment(s, solver, fr) ==
  LET c   == fr.locals
      seg == Segment(s, solver, c.ilowerc, c.ilowerc, c.iupperc, fr.b0, fr.b1,
                     fraction(c, c.ilowerc), fraction(c, c.iupperc), Zero, One)
  IN [fr EXCEPT !.pc = "done",
                !.segments = << seg >>,
                !.delta = seg.d,
                !.bounds0 = shifted(fr.b0, seg.d.lower, seg.d.upper),
                !.bounds1 = shifted(fr.b1, seg.d.lower, seg.d.upper)]

\* the single-segment path: the call of boundSegment and the shift of both
\* boxes by its delta
nonlinearBounds_single(s, solver, fr) ==
  LET c   == fr.locals
      seg == Segment(s, solver, c.ilowerc, c.ilowerc, c.iupperc, fr.b0, fr.b1,
                     fraction(c, c.ilowerc), fraction(c, c.iupperc),
                     max(Zero, sub(c.lower, c.ilowerfc)),
                     sub(One, max(Zero, sub(c.iupperfc, c.upper))))
  IN [fr EXCEPT !.pc = "done",
                !.segments = << seg >>,
                !.delta = seg.d,
                !.bounds0 = shifted(fr.b0, seg.d.lower, seg.d.upper),
                !.bounds1 = shifted(fr.b1, seg.d.lower, seg.d.upper)]

\* the multi-segment path (the else branch): the two seed boxes
nonlinearBounds_multi_seed(s, c) ==
  Frame("multi", "sweep", c, c.ilower_iter + 1,
        Seed(s, c.ilowerc, c.ilowerc + 1, sub(c.lower, c.ilowerfc)),
        Seed(s, c.iupperc, c.iupperc - 1, sub(c.iupperfc, c.upper)))

\* a first loop that widens b0 alone
nonlinearBounds_sweep_b0Only(s, fr) ==
  LET c == fr.locals
      i == fr.i
  IN IF ~(i < c.iupper_iter)
     THEN [fr EXCEPT !.pc = "correct", !.i = imax(1, c.ilower_iter + 1)]
     ELSE LET f  == fraction(c, i)
              bt == lerp_BBox(fr.b0, fr.b1, f)
              bi == Instance_bounds(s, i)
              dlower == min(sub(bi.lower, bt.lower), Zero)
              dupper == max(sub(bi.upper, bt.upper), Zero)
          IN [fr EXCEPT !.i = i + 1,
                        !.b0 = shifted(fr.b0, dlower, dupper),
                        !.sweep = Append(fr.sweep, [i |-> i, f |-> f, bi |-> bi])]

\* the first loop of the multi-segment path: its test and, at breakpoint i,
\* its body; after the loop the second one starts with delta = 0
nonlinearBounds_sweep(s, fr) ==
  LET c == fr.locals
      i == fr.i
  IN IF ~(i < c.iupper_iter)
     THEN [fr EXCEPT !.pc = "correct", !.i = imax(1, c.ilower_iter + 1)]
     ELSE LET f  == fraction(c, i)
              bt == lerp_BBox(fr.b0, fr.b1, f)
              bi == Instance_bounds(s, i)
              dlower == min(sub(bi.lower, bt.lower), Zero)
              dupper == max(sub(bi.upper, bt.upper), Zero)
          IN [fr EXCEPT !.i = i + 1,
                        !.b0 = shifted(fr.b0, dlower, dupper),
                        !.b1 = shifted(fr.b1, dlower, dupper),
                        !.sweep = Append(fr.sweep, [i |-> i, f |-> f, bi |-> bi])]


\* an end of the multi-segment path that drops the delta of the second loop
nonlinearBounds_multi_noDelta(fr) ==
  [fr EXCEPT !.pc = "done", !.bounds0 = fr.b0, !.bounds1 = fr.b1]

\* the end of the multi-segment path: delta is added to b0 and b1, which
\* become the bounds0 and bounds1 of the returned lbbox
nonlinearBounds_multi(fr) ==
  [fr EXCEPT !.pc = "done",
             !.bounds0 = shifted(fr.b0, fr.delta.lower, fr.delta.upper),
             !.bounds1 = shifted(fr.b1, fr.delta.lower, fr.delta.upper)]

\* a second loop that restricts every pair like the first one
nonlinearBounds_correct_allFirst(s, solver, fr) ==
  LET c    == fr.locals
      i    == fr.i
      upto == Min(int(s.fnumTimeSegments), c.iupper_iter)
  IN IF ~(i <= upto) THEN nonlinearBounds_multi(fr)
     ELSE LET seg == Segment(s, solver, i - 1, i - 1, i, fr.b0, fr.b1,
                       fraction(c, i - 1), fraction(c, i),
                       max(Zero, sub(c.lower, c.ilowerfc)),
                       IF i = imax(1, upto)
                       THEN sub(One, max(Zero, sub(c.iupperfc, c.upper))) ELSE One)
          IN [fr EXCEPT !.i = i + 1,
                        !.delta = BBox(min(fr.delta.lower, seg.d.lower),
                                       max(fr.delta.upper, seg.d.upper)),
                        !.segments = Append(fr.segments, seg)]

\* the second loop of the multi-segment path: its test and, for the pair
\* (i - 1, i), its body; after the loop the path ends
nonlinearBounds_correct(s, solver, fr) ==
  LET c    == fr.locals
      i    == fr.i
      upto == Min(int(s.fnumTimeSegments), c.iupper_iter)
  IN IF ~(i <= upto) THEN nonlinearBounds_multi(fr)
     ELSE LET seg == Segment(s, solver, i - 1, i - 1, i, fr.b0, fr.b1,
                       fraction(c, i - 1), fraction(c, i),
                       IF i = imax(1, c.ilower_iter + 1)
                       THEN max(Zero, sub(c.lower, c.ilowerfc)) ELSE Zero,
                       IF i = imax(1, upto)
                       THEN sub(One, max(Zero, sub(c.iupperfc, c.upper))) ELSE One)
          IN [fr EXCEPT !.i = i + 1,
                        !.delta = BBox(min(fr.delta.lower, seg.d.lower),
                                       max(fr.delta.upper, seg.d.upper)),
                        !.segments = Append(fr.segments, seg)]

\* Instance::nonlinearBounds(time_range_in, geom_time_range,
\* geom_time_segments) from its entry to the seed boxes of the path taken
Instance_nonlinearBounds(s, time_range_in, geom_time_range, geom_time_segments) ==
  LET c == nonlinearBounds_locals(time_range_in, geom_time_range, geom_time_segments)
  IN IF c.iupper_iter - c.ilower_iter = 1
     THEN nonlinearBounds_single_seed(s, c)
     ELSE nonlinearBounds_multi_seed(s, c)

\* a path of the function run from a frame to its return
RECURSIVE nonlinearBounds_return(_, _, _)
nonlinearBounds_return(s, solver, fr) ==
  CASE fr.pc = "done"    -> fr
    [] fr.pc = "single"  -> nonlinearBounds_return(s, solver, nonlinearBounds_single(s, solver, fr))
    [] fr.pc = "sweep"   -> nonlinearBounds_return(s, solver, nonlinearBounds_sweep(s, fr))
    [] fr.pc = "correct" -> nonlinearBounds_return(s, solver, nonlinearBounds_correct(s, solver, fr))

-----------------------------------------------------------------------------
(* Bounds queries of a committed instance *)

\* a keyframe: its transform and the object bounds of the sub-scene there
Keyframes ==
  { [xfm |-> AffineSpace(Float(1, 1), Zero), box |-> BBox(Float(0, 1), Float(1, 1))],
    [xfm |-> AffineSpace(Float(2, 1), Zero), box |-> BBox(Float(1, 1), Float(3, 1))],
    [xfm |-> AffineSpace(Float(3, 1), Zero), box |-> BBox(Float(0, 1), Float(1, 1))] }

\* the sequences of n keyframes
KeyframeSeqs(n) == [1 .. n -> Keyframes]

\* the time range of the geometry and the instants a query range may start
\* and end at: far and shortly before the first keyframe, on and between the
\* keyframes, shortly and far after the last one
GeomTimeRange == BBox(Float(0, 1), Float(8, 1))
QueryTimes == { Float(t, 1) : t \in {-12, -2, 0, 1, 4, 7, 8, 10, 20} }

\* query ranges of positive length that overlap the geometry's time range
QueryRanges ==
  { BBox(t0, t1) : << t0, t1 >> \in
      { q \in QueryTimes \X QueryTimes :
          /\ lt(q[1], q[2])
          /\ lt(q[1], GeomTimeRange.upper)
          /\ lt(GeomTimeRange.lower, q[2]) } }

\* the solver finds no stationary point, or the same three for both offsets
NoRoots == [ lower |-> << >>, upper |-> << >> ]
QuerySolvers ==
  { NoRoots, [ lower |-> << Zero, Half, One >>, upper |-> << Zero, Half, One >> ] }

InitBounds ==
  \E n \in 2 .. MaxN, mode \in Modes, time_range_in \in QueryRanges :
    \E k \in KeyframeSeqs(n) :
      /\ alive = TRUE
      /\ this = Committed(mode, [i \in 1 .. n |-> k[i].xfm], [i \in 1 .. n |-> k[i].box])
      /\ refCounter = InitialRefs
      /\ phase = "build"
      /\ call = Call("query", 0, [ time_range_in |-> time_range_in,
                                   geom_time_range |-> GeomTimeRange ])
      /\ result = NoResult
      /\ affineSet = {}

\* the function is entered: the locals, the branch, the two seed boxes; the
\* solver's answers are fixed for the whole call
nonlinearBounds ==
  \E solver \in QuerySolvers :
    /\ call.op = "query"
    /\ this.interpolation = LINEAR => solver = NoRoots
    /\ result' = Instance_nonlinearBounds(this, call.arg.time_range_in,
                   call.arg.geom_time_range, float(this.numTimeSteps - 1))
    /\ call' = Call("nonlinearBounds", 0, call.arg @@ [solver |-> solver])
    /\ UNCHANGED << alive, this, refCounter, phase, affineSet >>

\* the rest of the then branch
singleSegment ==
  /\ call.op = "nonlinearBounds"
  /\ result.pc = "single"
  /\ result' = nonlinearBounds_single(this, call.arg.solver, result)
  /\ UNCHANGED << alive, this, refCounter, phase, call, affineSet >>

\* the test of the first loop and one pass through its body
firstLoop ==
  /\ call.op = "nonlinearBounds"
  /\ result.pc = "sweep"
  /\ result' = nonlinearBounds_sweep(this, result)
  /\ UNCHANGED << alive, this, refCounter, phase, call, affineSet >>

\* the test of the second loop and one pass through its body, or the end of
\* the else branch
secondLoop ==
  /\ call.op = "nonlinearBounds"
  /\ result.pc = "correct"
  /\ result' = nonlinearBounds_correct(this, call.arg.solver, result)
  /\ UNCHANGED << alive, this, refCounter, phase, call, affineSet >>

NextBounds == nonlinearBounds \/ singleSegment \/ firstLoop \/ secondLoop
SpecBounds == InitBounds /\ [][NextBounds]_vars

\* the locals and the indices of the query answered in `result`
Q == result.locals
Keys == 0 .. (this.numTimeSteps - 1)
Entered == call.op = "nonlinearBounds"
Answered == Entered /\ result.pc = "done"
UnitInterval(f) == le(Zero, f) /\ le(f, One)


-----------------------------------------------------------------------------
(* Instance::boundSegment called by the builder between preCommit and      *)
(* postCommit: which branch it takes and what it reads from the arrays of   *)
(* the instance.                                                            *)

\* what a read through a null pointer or past the end of an array may yield
ForeignValues == {"freed", "stray"}

\* p[i]
read(p, i, foreign) ==
  IF p # Nullptr /\ i \in DOMAIN Deref(p) THEN Deref(p)[i] ELSE foreign

\* Instance::boundSegment(itime, ..): the branch and the operands it hands to
\* boundSegmentNonlinear or boundSegmentLinear
Instance_boundSegment_operands(s, itime, foreign) ==
  IF s.interpolation = NONLINEAR
  THEN [ branch |-> NONLINEAR,
         coeffs |-> read(s.motionDerivCoeffs, itime, foreign),
         xfm0   |-> read(s.quaternionDecomposition, itime, foreign),
         xfm1   |-> read(s.quaternionDecomposition, itime + 1, foreign) ]
  ELSE [ branch |-> LINEAR,
         xfm0   |-> read(s.local2world, itime, foreign),
         xfm1   |-> read(s.local2world, itime + 1, foreign) ]

\* the builder bounds the motion segment (itime, itime + 1)
buildSegment ==
  \E itime \in 0 .. (MaxN - 2), foreign \in ForeignValues :
    /\ alive /\ phase = "build"
    /\ itime + 1 < this.numTimeSteps
    /\ this' = Enter
    /\ result' = Instance_boundSegment_operands(Enter, itime, foreign)
    /\ call' = Call("boundSegment", itime, "-")
    /\ UNCHANGED << alive, refCounter, phase, affineSet >>

NextBuild ==
  \/ setNumTimeSteps
  \/ setTransform
  \/ setQuaternionDecomposition
  \/ commit
  \/ preCommit
  \/ postCommit
  \/ buildSegment

SpecBuild == Init /\ [][NextBuild]_vars

-----------------------------------------------------------------------------
(* Properties *)

N == this.numTimeSteps
L2W == Deref(this.local2world)
HasQD == this.quaternionDecomposition # Nullptr
QD == Deref(this.quaternionDecomposition)
Steps == 0 .. (N - 1)

\* the fields of the instance, the error state of the last call aside
Fields(s) == [s EXCEPT !.err = NoError]

\* the quaternion sequence holds a valid and a sentinel entry
Mixed == HasQD /\ (\E i \in Steps : ~IsSentinel(QD[i])) /\ (\E i \in Steps : IsSentinel(QD[i]))
AllValid == HasQD /\ \A i \in Steps : ~IsSentinel(QD[i])
AllSentinel == HasQD /\ \A i \in Steps : IsSentinel(QD[i])

\* C1: setTransform and setQuaternionDecomposition with a time step t >= N
\* fail with the invalid-operation error and change no field of the instance:
\* no affine entry, no quaternion entry, not the allocation of the quaternion
\* sequence, not the interpolation mode.
C1_OutOfRangeSetterFails ==
  [][ (/\ call'.op \in {"setTransform", "setQuaternionDecomposition"}
       /\ call'.t >= N)
      => /\ this'.err = RTC_ERROR_INVALID_OPERATION
         /\ this'.local2world = this.local2world
         /\ this'.quaternionDecomposition = this.quaternionDecomposition
         /\ this'.interpolation = this.interpolation
         /\ Fields(this') = Fields(this) ]_vars

C1_Witness ==
  /\ call.op = "setQuaternionDecomposition"
  /\ call.t = N
  /\ this.err = RTC_ERROR_INVALID_OPERATION
  /\ N >= 2
  /\ Mixed

\* C2: a commit of an instance with N >= 2 time steps whose quaternion
\* sequence holds both a valid and a sentinel entry fails with the
\* invalid-operation error and leaves the interpolation mode as it was.
C2_MixedCommitFails ==
  [][ (call'.op = "commit" /\ N >= 2 /\ Mixed)
      => /\ this'.err = RTC_ERROR_INVALID_OPERATION
         /\ this'.interpolation = this.interpolation ]_vars

C2_Witness ==
  /\ call.op = "commit"
  /\ this.err = RTC_ERROR_INVALID_OPERATION
  /\ N >= 2
  /\ Mixed
  /\ this.interpolation = NONLINEAR

\* C3: after a successful commit the mode is NONLINEAR exactly when the
\* quaternion sequence exists and all its entries are valid, and LINEAR
\* exactly when the sequence does not exist or all its entries are the
\* sentinel, whatever the mode was before.
C3_ModeFromData ==
  [][ (call'.op = "commit" /\ this'.err = NoError)
      => /\ (this'.interpolation = NONLINEAR) <=> AllValid
         /\ (this'.interpolation = LINEAR) <=> (~HasQD \/ AllSentinel) ]_vars

C3_Witness ==
  /\ call.op = "commit"
  /\ this.err = NoError
  /\ this.interpolation = NONLINEAR
  /\ N = 3
  /\ this.world2local0 = "rcp_DRM_q2"

\* C4: setNumTimeSteps from N to M # N keeps the entries below min(N, M) of
\* both sequences, makes the new affine entries the identity and the new
\* quaternion entries the sentinel, and keeps the quaternion sequence
\* allocated exactly if it was; with M = N it changes nothing.
C4_ResizePreserves ==
  [][ call'.op = "setNumTimeSteps"
      => LET M == call'.t
             l2w2 == Deref(this'.local2world)
             qd2 == Deref(this'.quaternionDecomposition)
         IN IF M = N THEN Fields(this') = Fields(this)
            ELSE /\ this'.numTimeSteps = M
                 /\ DOMAIN l2w2 = 0 .. (M - 1)
                 /\ \A i \in 0 .. (Min(N, M) - 1) : l2w2[i] = L2W[i]
                 /\ \A i \in N .. (M - 1) : l2w2[i] = "one"
                 /\ (this'.quaternionDecomposition # Nullptr) <=> HasQD
                 /\ HasQD => /\ DOMAIN qd2 = 0 .. (M - 1)
                             /\ \A i \in 0 .. (Min(N, M) - 1) : qd2[i] = QD[i]
                             /\ \A i \in N .. (M - 1) : IsSentinel(qd2[i]) ]_vars

C4_Witness ==
  /\ call.op = "setNumTimeSteps"
  /\ N = 3
  /\ HasQD
  /\ L2W[0] = "A" /\ L2W[1] = "DRM_q2" /\ L2W[2] = "one"
  /\ QD[1] = QDEntry("q2")
  /\ QD[2] = SetSentinel(UninitEntry)

\* C5: setTransform(xfm, t) with t < N stores xfm at affine entry t, makes
\* quaternion entry t the sentinel if the quaternion sequence exists, changes
\* no other entry and never allocates the quaternion sequence; and a commit
\* of a NONLINEAR instance whose every time step was last set by
\* setTransform succeeds and selects LINEAR.
C5_SetTransformEffect ==
  [][ /\ (call'.op = "setTransform" /\ call'.t < N)
         => LET t == call'.t
                l2w2 == Deref(this'.local2world)
                qd2 == Deref(this'.quaternionDecomposition)
            IN /\ this'.err = NoError
               /\ this'.numTimeSteps = N
               /\ DOMAIN l2w2 = Steps
               /\ l2w2[t] = call'.arg
               /\ \A i \in Steps \ {t} : l2w2[i] = L2W[i]
               /\ (this'.quaternionDecomposition # Nullptr) <=> HasQD
               /\ HasQD => /\ DOMAIN qd2 = Steps
                           /\ IsSentinel(qd2[t])
                           /\ \A i \in Steps \ {t} : qd2[i] = QD[i]
      /\ (call'.op = "commit" /\ this.interpolation = NONLINEAR /\ affineSet = Steps)
         => (this'.err = NoError /\ this'.interpolation = LINEAR) ]_vars

C5_Witness ==
  /\ call.op = "commit"
  /\ this.err = NoError
  /\ this.interpolation = LINEAR
  /\ HasQD
  /\ N = 3
  /\ affineSet = Steps
  /\ \A i \in Steps : QD[i].rest \in QDs


\* C6: setQuaternionDecomposition(qd, t) with t < N leaves the quaternion
\* sequence allocated with entry t the raw decomposition qd, which is not the
\* sentinel, and affine entry t the transform derived from qd; on the first
\* call every other quaternion entry is the sentinel, on a later call every
\* other quaternion entry is unchanged; every other affine entry is unchanged.
C6_SetQuaternionEffect ==
  [][ (call'.op = "setQuaternionDecomposition" /\ call'.t < N)
      => LET t == call'.t
             l2w2 == Deref(this'.local2world)
             qd2 == Deref(this'.quaternionDecomposition)
         IN /\ this'.err = NoError
            /\ this'.numTimeSteps = N
            /\ this'.quaternionDecomposition # Nullptr
            /\ DOMAIN qd2 = Steps
            /\ qd2[t] = QDEntry(call'.arg)
            /\ ~IsSentinel(qd2[t])
            /\ DOMAIN l2w2 = Steps
            /\ l2w2[t] = AffineFromQD(call'.arg)
            /\ \A i \in Steps \ {t} : l2w2[i] = L2W[i]
            /\ \A i \in Steps \ {t} :
                 IF HasQD THEN qd2[i] = QD[i] ELSE IsSentinel(qd2[i]) ]_vars

C6_Witness ==
  /\ call.op = "setQuaternionDecomposition"
  /\ this.err = NoError
  /\ N = 3
  /\ call.t = 1
  /\ QD[1] = QDEntry(call.arg)
  /\ L2W[1] = AffineFromQD(call.arg)
  /\ QD[0] = QDEntry("q1") /\ QD[0] # QD[1]
  /\ IsSentinel(QD[2]) /\ L2W[2] = "A"

\* C7: a successful setTransform marks the geometry modified.
C7_SetTransformMarksModified ==
  [][ (call'.op = "setTransform" /\ this'.err = NoError)
      => this'.modified = TRUE ]_vars

\* the time (in half segments) of keyframe t
KeyframeTime(t) == 2 * t

\* a getTransform at the time of the keyframe that the call before it, a
\* successful setTransform, has set
RoundTrip ==
  /\ call.op = "setTransform"
  /\ this.err = NoError
  /\ call'.op = "getTransform"
  /\ N = 1 \/ call'.t = KeyframeTime(call.t)

\* C8 as stated: getTransform at the time of keyframe t, right after
\* setTransform(xfm, t), returns xfm, for every N >= 1.
C8_RoundTripAlways ==
  [][ RoundTrip => result' = call.arg ]_vars

\* C8: getTransform at the time of keyframe t, right after setTransform(xfm, t),
\* returns xfm if N = 1 or the interpolation mode is LINEAR; with N = 1
\* getTransform returns the one stored transform for every time.
C8_RoundTripLinear ==
  [][ /\ (RoundTrip /\ (N = 1 \/ this.interpolation = LINEAR))
         => result' = call.arg
      /\ (call'.op = "getTransform" /\ N = 1) => result' = L2W[0] ]_vars

C8_Witness ==
  /\ call.op = "getTransform"
  /\ N = 3
  /\ call.t = KeyframeTime(2)
  /\ 2 \in affineSet
  /\ L2W[1] = "DRM_q1"
  /\ this.interpolation = LINEAR
  /\ result = "A"

\* C9: outside the preCommit .. postCommit window the coefficient array is
\* absent; postCommit discards it in either mode; preCommit in NONLINEAR mode
\* leaves an array of exactly N - 1 entries, entry i built from the
\* quaternion entries i and i + 1.
C9_CoefficientsTransient ==
  /\ [](phase = "mutate" => this.motionDerivCoeffs = Nullptr)
  /\ [][ /\ call'.op = "postCommit" => this'.motionDerivCoeffs = Nullptr
         /\ (call'.op = "preCommit" /\ this.interpolation = NONLINEAR)
            => /\ this'.motionDerivCoeffs # Nullptr
               /\ LET c == Deref(this'.motionDerivCoeffs)
                  IN /\ DOMAIN c = 0 .. (N - 2)
                     /\ \A i \in 0 .. (N - 2) :
                          c[i] = MotionDerivativeCoefficients(QD[i], QD[i + 1]) ]_vars

C9_Witness ==
  /\ call.op = "preCommit"
  /\ phase = "build"
  /\ N = 3
  /\ this.motionDerivCoeffs # Nullptr
  /\ Deref(this.motionDerivCoeffs)[0] # Deref(this.motionDerivCoeffs)[1]
  /\ AllValid

\* C10: the instance holds exactly one reference on the sub-scene it
\* references and none on any other, and none at all once destroyed.
C10_RefCountBalance ==
  \A o \in Scenes :
    refCounter[o] = InitialRefs[o] + (IF alive /\ this.object = o THEN 1 ELSE 0)

C10_Witness ==
  /\ ~alive
  /\ this.object = "s2"
  /\ call.op = "~Instance"
  /\ refCounter = InitialRefs

\* C14: preCommit builds the coefficient array exactly when the
\* classification of the quaternion data stored at that moment is nonlinear,
\* whatever mode an earlier commit has cached.
C14_PreCommitFromData ==
  [][call'.op = "preCommit"
       => ((this'.motionDerivCoeffs # Nullptr) <=> AllValid)]_vars

\* C15: a successful commit leaves the classified mode, the inverse of the
\* affine entry 0 in the cache, and the base commit done (the geometry is no
\* longer marked modified); a commit whose classification fails changes
\* neither the cached inverse nor the modified mark nor the mode.
C15_CommitOrder ==
  [][call'.op = "commit"
       => IF this'.err = NoError
          THEN /\ ~Mixed
               /\ this'.interpolation = (IF AllValid THEN NONLINEAR ELSE LINEAR)
               /\ this'.world2local0 = rcp(L2W[0])
               /\ this'.modified = FALSE
          ELSE /\ Mixed
               /\ this'.world2local0 = this.world2local0
               /\ this'.modified = this.modified
               /\ this'.interpolation = this.interpolation]_vars

C15_Witness ==
  /\ call.op = "commit"
  /\ this.err = RTC_ERROR_INVALID_OPERATION
  /\ this.modified = TRUE
  /\ this.world2local0 # rcp(L2W[0])


\* an instance state with a quaternion array and no entry to scan
NoEntries(s) ==
  [s EXCEPT !.numTimeSteps = 0,
            !.local2world = Ptr([i \in Indices(0) |-> "one"]),
            !.quaternionDecomposition = Ptr([i \in Indices(0) |-> UninitEntry])]

C11_DeltaSignCorrect ==
  call.op = "boundSegment" => le(result.lower, Zero) /\ le(Zero, result.upper)

C11_Witness ==
  /\ call.op = "boundSegment"
  /\ this.interpolation = LINEAR
  /\ lt(result.lower, Zero)
  /\ le(Zero, result.upper)

\* C19: for an instance of N time steps with geom_time_segments = N - 1
\* and a query range of positive length that overlaps the geometry's time
\* range, every keyframe index handed to bounds(), getObjectBounds() and
\* boundSegment (which reads itime and itime + 1) lies in 0 .. N - 1, and
\* the asserted iupperc - ilowerc > 0 holds.
C19_IndexSafety ==
  Entered =>
    /\ result.asserted
    /\ \A j \in 1 .. Len(result.seeds) :
         result.seeds[j].itime0 \in Keys /\ result.seeds[j].itime1 \in Keys
    /\ \A j \in 1 .. Len(result.sweep) : result.sweep[j].i \in Keys
    /\ \A j \in 1 .. Len(result.segments) :
         /\ result.segments[j].itime \in Keys
         /\ result.segments[j].itime + 1 \in Keys
         /\ result.segments[j].obbox0 \in Keys
         /\ result.segments[j].obbox1 \in Keys

C19_Witness ==
  /\ Answered
  /\ result.path = "multi"
  /\ lt(Q.lower, Zero)
  /\ lt(float(this.numTimeSteps - 1), Q.upper)
  /\ Len(result.sweep) = this.numTimeSteps
  /\ Len(result.segments) = this.numTimeSteps - 1

\* C20: on both paths every blend fraction f handed to bounds(i, j, f) for
\* the two seed boxes lies in [0, 1], and every restriction handed to the
\* segment corrector satisfies 0 <= tmin <= tmax <= 1, for every query range
\* that overlaps the geometry's time range.
C20_FractionsInRange ==
  Entered =>
    /\ \A j \in 1 .. Len(result.seeds) : UnitInterval(result.seeds[j].f)
    /\ \A j \in 1 .. Len(result.segments) :
         /\ le(Zero, result.segments[j].tmin)
         /\ le(result.segments[j].tmin, result.segments[j].tmax)
         /\ le(result.segments[j].tmax, One)

\* the query range lies inside the one local segment k
InsideSegment(k) ==
  /\ le(float(k), Q.lower)
  /\ lt(Q.lower, Q.upper)
  /\ le(Q.upper, float(k + 1))

\* C13: a query range whose local form lies inside one local segment k
\* (k <= lower < upper <= k + 1) takes the single-segment path: the two
\* provisional boxes are the blends of keyframes k and k + 1 at the ends of
\* the range, the corrector is called once, for the keyframes (k, k + 1)
\* restricted to [lower - k, upper - k], and both provisional boxes are
\* shifted by its delta.
C13_SingleSegmentPath ==
  Answered =>
    \A k \in 0 .. (this.numTimeSteps - 2) :
      InsideSegment(k) =>
        /\ result.path = "single"
        /\ result.sweep = << >>
        /\ result.b0 = Instance_bounds_f(this, k, k + 1, sub(Q.lower, float(k)))
        /\ result.b1 = Instance_bounds_f(this, k + 1, k, sub(float(k + 1), Q.upper))
        /\ Len(result.segments) = 1
        /\ LET seg == result.segments[1]
           IN /\ seg.itime = k /\ seg.obbox0 = k /\ seg.obbox1 = k + 1
              /\ seg.tmin = sub(Q.lower, float(k))
              /\ seg.tmax = sub(Q.upper, float(k))
              /\ seg.d = Instance_boundSegment(this, call.arg.solver, k,
                           Instance_getObjectBounds(this, k),
                           Instance_getObjectBounds(this, k + 1),
                           lerp_BBox(result.b0, result.b1, seg.f0),
                           lerp_BBox(result.b0, result.b1, seg.f1),
                           seg.tmin, seg.tmax)
              /\ result.bounds0 = shifted(result.b0, seg.d.lower, seg.d.upper)
              /\ result.bounds1 = shifted(result.b1, seg.d.lower, seg.d.upper)

C13_Witness ==
  /\ Answered
  /\ InsideSegment(1)
  /\ lt(Q.upper, float(2))
  /\ result.path = "single"
  /\ result.delta # BBox(Zero, Zero)

\* the part of the first touched segment before the query range, and the
\* part of the last touched segment after it
LowerOverlap == max(Zero, sub(Q.lower, float(Q.ilowerc)))
UpperOverlap == max(Zero, sub(float(Q.iupperc), Q.upper))

\* C17: on the multi-segment path the corrector is called once for every
\* keyframe pair (i - 1, i) with ilowerc < i <= iupperc and for no other;
\* tmin is the fractional lower overlap for the first pair and 0 for the
\* others, tmax is 1 minus the fractional upper overlap for the last pair
\* and 1 for the others; the delta added to both endpoint boxes is the
\* least of the lower deltas and the greatest of the upper deltas.
C17_MultiSegmentCorrection ==
  (Answered /\ result.path = "multi") =>
    LET n == Len(result.segments)
    IN /\ n = Q.iupperc - Q.ilowerc
       /\ \A j \in 1 .. n :
            LET seg == result.segments[j]
            IN /\ seg.itime = Q.ilowerc + j - 1
               /\ seg.obbox0 = seg.itime /\ seg.obbox1 = seg.itime + 1
               /\ seg.tmin = (IF j = 1 THEN LowerOverlap ELSE Zero)
               /\ seg.tmax = (IF j = n THEN sub(One, UpperOverlap) ELSE One)
               /\ le(result.delta.lower, seg.d.lower)
               /\ le(seg.d.upper, result.delta.upper)
       /\ \E j \in 1 .. n : result.delta.lower = result.segments[j].d.lower
       /\ \E j \in 1 .. n : result.delta.upper = result.segments[j].d.upper
       /\ result.bounds0 = shifted(result.b0, result.delta.lower, result.delta.upper)
       /\ result.bounds1 = shifted(result.b1, result.delta.lower, result.delta.upper)

C17_Witness ==
  /\ Answered
  /\ result.path = "multi"
  /\ Len(result.segments) = 2
  /\ lt(Zero, result.segments[1].tmin)
  /\ lt(result.segments[2].tmax, One)
  /\ result.delta # BBox(Zero, Zero)

\* C12: for a query range that is exactly one local segment [k, k + 1] the
\* multi-segment path and the single-segment path, applied to the same
\* keyframes and the same corrector, compute the same bounds0 and bounds1;
\* the function itself answers such a range on the single-segment path.
C12_PathEquivalence ==
  (Answered /\ Q.lower = float(Q.ilowerc) /\ Q.upper = float(Q.ilowerc + 1)) =>
    LET single == nonlinearBounds_return(this, call.arg.solver,
                                         nonlinearBounds_single_seed(this, Q))
        multi  == nonlinearBounds_return(this, call.arg.solver,
                                         nonlinearBounds_multi_seed(this, Q))
    IN /\ single.bounds0 = multi.bounds0
       /\ single.bounds1 = multi.bounds1
       /\ result.path = "single"
       /\ result.bounds0 = single.bounds0
       /\ result.bounds1 = single.bounds1

C12_Witness ==
  /\ Answered
  /\ Q.lower = float(1)
  /\ Q.upper = float(2)
  /\ result.delta.lower # Zero
  /\ nonlinearBounds_return(this, call.arg.solver,
                            nonlinearBounds_multi_seed(this, Q)).bounds1 = result.bounds1

\* C18: on the multi-segment path, at every grid breakpoint i visited by
\* the first loop the blend of the final bounds0 and bounds1 at the position
\* of i in the query range contains the bounds of keyframe i; neither a later
\* widening nor the correction delta breaks it.
C18_BreakpointContainment ==
  (Answered /\ result.path = "multi") =>
    \A j \in 1 .. Len(result.sweep) :
      LET i  == result.sweep[j].i
          bt == lerp_BBox(result.bounds0, result.bounds1, fraction(Q, i))
          bi == Instance_bounds(this, i)
      IN le(bt.lower, bi.lower) /\ le(bi.upper, bt.upper)

C18_Witness ==
  /\ Answered
  /\ result.path = "multi"
  /\ Len(result.sweep) >= 2
  /\ result.b0 # result.seeds[1].box
  /\ result.b1 # result.seeds[2].box
  /\ result.delta # BBox(Zero, Zero)

\* the builder's last call took the nonlinear branch of boundSegment
NonlinearSegment == call.op = "boundSegment" /\ result.branch = NONLINEAR

\* in the build phase the coefficient array of a nonlinear instance exists,
\* has N - 1 entries, and the entry read was built from the two quaternion
\* entries stored now
CoefficientsCurrent ==
  NonlinearSegment =>
    /\ HasQD
    /\ this.motionDerivCoeffs # Nullptr
    /\ DOMAIN Deref(this.motionDerivCoeffs) = Indices(N - 1)
    /\ result.coeffs = MotionDerivativeCoefficients(QD[call.t], QD[call.t + 1])

\* C21: whenever boundSegment takes its nonlinear branch between preCommit
\* and postCommit, the coefficient array exists with N - 1 entries, the entry
\* it reads was built from the quaternion entries itime and itime + 1 stored
\* now, and both of these entries are valid decompositions.
C21_NonlinearSegmentReads ==
  NonlinearSegment =>
    /\ HasQD
    /\ this.motionDerivCoeffs # Nullptr
    /\ DOMAIN Deref(this.motionDerivCoeffs) = Indices(N - 1)
    /\ result.coeffs = MotionDerivativeCoefficients(QD[call.t], QD[call.t + 1])
    /\ ~IsSentinel(result.xfm0)
    /\ ~IsSentinel(result.xfm1)

\* the nonlinear branch reads an entry that setTransform has invalidated
\* since the last commit, and the geometry is not marked modified
StaleSegmentRead ==
  /\ NonlinearSegment
  /\ ~this.modified
  /\ call.t = 0
  /\ L2W[0] \in Xfms
  /\ IsSentinel(result.xfm0)
  /\ ~IsSentinel(result.xfm1)
  /\ result.coeffs = MotionDerivativeCoefficients(QD[0], QD[1])

=============================================================================
